---- MODULE Spec2Model ----
(***************************************************************************)
(* The controllers of the simple MVC example (server/controllers/index.js) *)
(* over the Cat and Dog models: one task per request on a single event     *)
(* loop, a document store reached asynchronously, and the process-wide     *)
(* lastAdded reference.                                                    *)
(*                                                                         *)
(* A request is dispatched (the handler runs up to its first suspension),  *)
(* its storage operation is executed by the store at some later time, and  *)
(* its continuation then produces the response.  Handlers never suspend    *)
(* anywhere else, so each of these three steps is atomic.                  *)
(***************************************************************************)
EXTENDS Integers, Sequences, FiniteSets, TLC

\* ------------------------------------------------------------------ bounds
\* Requests dispatched in one run of the process.
MaxReq == 2

\* ------------------------------------------------------------ JS values
\* A string is a sequence of characters; a request field is a string that is
\* present, or is absent (undefined).
Str(s) == [p |-> TRUE, s |-> s]
Absent == [p |-> FALSE, s |-> <<>>]

\* A numeric request field: absent, a JSON number, a string of decimal
\* digits ("2"), or a string that is no number ("x").
NoNum == [t |-> "absent", n |-> 0]
Num(n) == [t |-> "number", n |-> n]
Digits(n) == [t |-> "digits", n |-> n]
Text == [t |-> "text", n |-> 0]

\* A numeric property of a document in memory.
Undefined == [t |-> "undefined", n |-> 0]
NaN == [t |-> "NaN", n |-> 0]

\* !v of the handlers: undefined, "", 0 and NaN are falsy; every other string
\* (also "0" and " ") and every other number is truthy.
FalsyStr(f) == ~f.p \/ f.s = <<>>

\* (FalsyNum as it would be if an absent field were not falsy.)
FalsyNumZeroOnly(v) == v.t = "number" /\ v.n = 0

FalsyNum(v) ==
  \/ v.t = "absent"
  \/ v.t = "number" /\ v.n = 0

\* `${firstname} ${lastname}`
TemplateName(first, last) == first.s \o <<" ">> \o last.s

\* String.prototype.trim, the setter of a schema path with trim: true.
RECURSIVE TrimLeft(_)
TrimLeft(s) ==
  IF s = <<>> THEN s
  ELSE IF Head(s) = " " THEN TrimLeft(Tail(s)) ELSE s

RECURSIVE TrimRight(_)
TrimRight(s) ==
  IF s = <<>> THEN s
  ELSE IF s[Len(s)] = " " THEN TrimRight(SubSeq(s, 1, Len(s) - 1)) ELSE s

Trim(s) == TrimRight(TrimLeft(s))

\* The cast of a schema path of type Number: a number stays, a numeric string
\* becomes its value, anything else is a cast error and leaves the path
\* undefined.
CastNumber(v) ==
  IF v.t \in {"number", "digits"} THEN Num(v.n) ELSE Undefined

\* (Increment as it would be if an undefined property counted as 0.)
IncrementFromZero(v) ==
  IF v.t = "number" THEN Num(v.n + 1) ELSE Num(1)

\* x++ on a property: undefined and NaN give NaN.
Increment(v) ==
  IF v.t = "number" THEN Num(v.n + 1) ELSE NaN

\* JSON.stringify of a property inside a response body: NaN is written as
\* null, an undefined property is left out.
Json(v) ==
  IF v.t = "number" THEN v
  ELSE IF v.t = "NaN" THEN [t |-> "null", n |-> 0]
  ELSE [t |-> "absent", n |-> 0]

\* ------------------------------------------------------------ documents
\* A Mongoose document in memory.  bedsOwned is a schema path of Cat, age and
\* breed of Dog; on the other model they are plain properties, undefined
\* until a handler assigns them.  isNew: never inserted; saving: a save() of
\* it is in progress; dirty: a schema path was modified since the last save.
\* (NewCat as it would be without trim: true on the name path.)
NewCatUntrimmed(catData) ==
  [model |-> "Cat", name |-> catData.name,
   bedsOwned |-> CastNumber(catData.bedsOwned),
   breed |-> Absent, age |-> Undefined,
   isNew |-> TRUE, saving |-> FALSE, dirty |-> FALSE]

NewCat(catData) ==
  [model |-> "Cat", name |-> Trim(catData.name),
   bedsOwned |-> CastNumber(catData.bedsOwned),
   breed |-> Absent, age |-> Undefined,
   isNew |-> TRUE, saving |-> FALSE, dirty |-> FALSE]

NewDog(dogData) ==
  [model |-> "Dog", name |-> dogData.name,
   bedsOwned |-> Undefined,
   breed |-> dogData.breed, age |-> CastNumber(dogData.age),
   isNew |-> TRUE, saving |-> FALSE, dirty |-> FALSE]

defaultData == [name |-> <<"unknown">>, bedsOwned |-> Num(0)]

\* Schema validation, run by save() before anything is sent to the store.
ValidCat(d) ==
  /\ d.name # <<>>
  /\ d.bedsOwned.t = "number"
  /\ d.bedsOwned.n >= 0

ValidDog(d) ==
  /\ d.name # <<>>
  /\ ~FalsyStr(d.breed)
  /\ d.age.t = "number"

Valid(d) == IF d.model = "Cat" THEN ValidCat(d) ELSE ValidDog(d)

\* The stored form of a document: its schema paths only.
ToObject(d) ==
  IF d.model = "Cat"
  THEN [model |-> "Cat", name |-> d.name, bedsOwned |-> d.bedsOwned.n,
        breed |-> <<>>, age |-> 0]
  ELSE [model |-> "Dog", name |-> d.name, bedsOwned |-> 0,
        breed |-> d.breed.s, age |-> d.age.n]

NoRecord == [model |-> "none", name |-> <<>>, bedsOwned |-> 0,
             breed |-> <<>>, age |-> 0]

\* Identity of the placeholder document made at start-up; the document a
\* request creates takes the request's number.
PlaceholderId == 0
NoDoc == PlaceholderId - 1

\* ---------------------------------------------------------------- state
VARIABLES
  lastAdded,  \* identity of the document the Tracker references
  heap,       \* the documents in memory that are still referenced
  db,         \* the stored records of both collections, by _id
  reqs,       \* the requests whose storage operation has not yet been answered
  nextId,     \* number of requests dispatched so far
  out,        \* the responses the last step wrote
  created,    \* the documents whose create request was answered 200
  streak      \* the responses of the updateLast requests that ran one after
              \* another with no other request open or in between (the last two)

vars == <<lastAdded, heap, db, reqs, nextId, out, created, streak>>

\* ------------------------------------------------------ requests, responses
NoInput == [firstname |-> Absent, lastname |-> Absent, beds |-> NoNum,
            breed |-> Absent, age |-> NoNum, name |-> Absent]

NoOp == [type |-> "none", model |-> "none", id |-> NoDoc, obj |-> NoRecord,
         path |-> "none", value |-> 0, name |-> <<>>]

NoResult == [ok |-> FALSE, doc |-> NoRecord, docs |-> {}, seen |-> <<>>]

\* A request being handled.  kind: the handler; in: req.body / req.query;
\* doc: the document it saves; op: the storage operation it issued; pc:
\* "sent" until the store has executed op, then "replied"; res: the store's
\* answer.  Kept for the record: held (the model of the document the Tracker
\* referenced when the handler ran), before (the numeric property as it was before the
\* handler incremented it), ops (storage operations issued), alone (no other
\* request was dispatched while this one was open), hadDelta (the save
\* carried modified paths).
Request(rid, kind, in) ==
  [rid |-> rid, kind |-> kind, in |-> in, doc |-> NoDoc, op |-> NoOp,
   pc |-> "sent", res |-> NoResult, held |-> heap[lastAdded].model,
   before |-> Undefined, ops |-> 0, alone |-> (reqs = <<>>),
   hadDelta |-> FALSE]

NoBody == [shape |-> "none", name |-> <<>>, beds |-> Json(Undefined),
           breed |-> Absent, age |-> Json(Undefined), text |-> "", docs |-> {}]

ErrorBody(msg) == [NoBody EXCEPT !.shape = "error", !.text = msg]

\* res.status(status).json(body) or res.render(view, data)
Response(req, status, body) == [status |-> status, body |-> body, req |-> req]

\* The open requests, as a function from request number to request.
Open == DOMAIN reqs

\* Another request was dispatched: no open request is alone any more.
Joined(rs) == [r \in DOMAIN rs |-> [rs[r] EXCEPT !.alone = FALSE]]

\* Documents no longer referenced by the Tracker or by an open request are
\* dropped from memory.
Collect(h, tracker, rs) ==
  LET live == {tracker} \cup {rs[r].doc : r \in DOMAIN rs}
  IN [d \in (DOMAIN h) \cap live |-> h[d]]

Init ==
  /\ lastAdded = PlaceholderId
  /\ heap = (PlaceholderId :> NewCat(defaultData))
  /\ db = <<>>
  /\ reqs = <<>>
  /\ nextId = 0
  /\ out = <<>>
  /\ created = {}
  /\ streak = <<>>

\* ------------------------------------------------------------ the store
\* (Duplicate as it would be without the unique index.)
NeverDuplicate(obj) == FALSE

\* unique: true on Cat.name: the store refuses a second Cat of the same name.
\* The Dog schema states no such index.
Duplicate(obj) ==
  /\ obj.model = "Cat"
  /\ \E i \in DOMAIN db : db[i].model = "Cat" /\ db[i].name = obj.name

\* Whether the store accepts op when it executes it (the connection being up).
Accepts(op) ==
  CASE op.type = "insertOne" -> ~Duplicate(op.obj)
    [] op.type \in {"updateOne", "exists"} -> op.id \in DOMAIN db
    [] OTHER -> TRUE

\* The store's records after it has executed op.
Applied(op) ==
  CASE op.type = "insertOne" -> db @@ (op.id :> op.obj)
    [] op.type = "updateOne" /\ op.path = "bedsOwned" ->
         [db EXCEPT ![op.id].bedsOwned = op.value]
    [] op.type = "updateOne" /\ op.path = "age" ->
         [db EXCEPT ![op.id].age = op.value]
    [] OTHER -> db

\* The records of a collection that a findOne by name can return.
Matches(op) ==
  {db[i] : i \in {j \in DOMAIN db :
                    db[j].model = op.model /\ db[j].name = op.name}}

\* find({}).lean(): every record of the collection.
AllOf(model) == {db[i] : i \in {j \in DOMAIN db : db[j].model = model}}

\* The store executes the operation of an open request, or the operation
\* fails (the store is unreachable, or it refuses the operation).  The
\* answer to a query is taken from the records as they are at that moment
\* (seen).
StoreExec ==
  \E r \in Open, up \in BOOLEAN :
    /\ reqs[r].pc = "sent"
    /\ LET op == reqs[r].op
           ok == up /\ Accepts(op)
           query == ok /\ op.type \in {"findOne", "find"}
       IN /\ db' = IF ok THEN Applied(op) ELSE db
          /\ \E found \in (IF Matches(op) = {} THEN {NoRecord} ELSE Matches(op)) :
               reqs' = [reqs EXCEPT ![r].pc = "replied",
                          ![r].res = [ok |-> ok,
                                      doc |-> IF ok /\ op.type = "findOne"
                                              THEN found ELSE NoRecord,
                                      docs |-> IF ok /\ op.type = "find"
                                               THEN AllOf(op.model) ELSE {},
                                      seen |-> IF query THEN db ELSE <<>>]]
    /\ out' = <<>>
    /\ UNCHANGED <<lastAdded, heap, nextId, created, streak>>

\* ------------------------------------------------------------ doc.save()
\* (SaveOp as it would be if modified paths were not tracked.)
SaveOpInsertOnly(d, id) ==
  IF d.isNew
  THEN [NoOp EXCEPT !.type = "insertOne", !.model = d.model, !.id = id,
                    !.obj = ToObject(d)]
  ELSE [NoOp EXCEPT !.type = "exists", !.model = d.model, !.id = id]

\* What save() sends for document d with identity id: the whole document if
\* it was never inserted, the modified path if there is one, and otherwise
\* only a check that the record exists.
SaveOp(d, id) ==
  IF d.isNew
  THEN [NoOp EXCEPT !.type = "insertOne", !.model = d.model, !.id = id,
                    !.obj = ToObject(d)]
  ELSE IF d.dirty
  THEN [NoOp EXCEPT !.type = "updateOne", !.model = d.model, !.id = id,
                    !.path = IF d.model = "Cat" THEN "bedsOwned" ELSE "age",
                    !.value = IF d.model = "Cat" THEN d.bedsOwned.n ELSE d.age.n]
  ELSE [NoOp EXCEPT !.type = "exists", !.model = d.model, !.id = id]

\* (Rejected as it would be if parallel saves of a document were allowed.)
RejectedInvalidOnly(d) == ~Valid(d)

\* save() is rejected at once, with nothing sent, when another save() of the
\* same document is in progress or the document fails validation.
Rejected(d) == d.saving \/ ~Valid(d)

\* The document while its save is in flight, and once the save has settled.
Saving(d) == [d EXCEPT !.saving = TRUE, !.dirty = FALSE]

\* (Settled as it would be if a saved document stayed new.)
SettledStaysNew(d, ok, hadDelta) ==
  [d EXCEPT !.saving = FALSE,
            !.dirty = IF ok THEN @ ELSE (@ \/ hadDelta)]

\* The document once its save has settled: inserted, it is no longer new;
\* failed, its modified paths are modified again.
Settled(d, ok, hadDelta) ==
  [d EXCEPT !.saving = FALSE,
            !.isNew = IF ok THEN FALSE ELSE @,
            !.dirty = IF ok THEN @ ELSE (@ \/ hadDelta)]

\* ------------------------------------------------------------- handlers
\* The inputs requests are drawn from.
CatInput(first, last, beds) ==
  [NoInput EXCEPT !.firstname = first, !.lastname = last, !.beds = beds]

DogInput(first, last, breed, age) ==
  [NoInput EXCEPT !.firstname = first, !.lastname = last, !.breed = breed,
                  !.age = age]

Query(name) == [NoInput EXCEPT !.name = name]

CatBodies ==
  { CatInput(Str(<<"a">>), Str(<<"b">>), Num(1)),
    CatInput(Str(<<" ", "a">>), Str(<<"b">>), Digits(2)),
    CatInput(Str(<<"unknown">>), Str(<<" ">>), Digits(0)),
    CatInput(Str(<<"a">>), Str(<<"b">>), Num(0)),
    CatInput(Absent, Str(<<"b">>), Num(1)),
    CatInput(Str(<<>>), Str(<<"b">>), Num(1)),
    CatInput(Str(<<"a">>), Absent, Num(1)),
    CatInput(Str(<<"a">>), Str(<<"b">>), NoNum),
    CatInput(Str(<<"a">>), Str(<<"b">>), Text),
    CatInput(Str(<<"a">>), Str(<<"b">>), Num(-1)),
    CatInput(Str(<<" ">>), Str(<<" ">>), Num(1)) }

DogBodies ==
  { DogInput(Str(<<"a">>), Str(<<"b">>), Str(<<"x">>), Digits(3)),
    DogInput(Str(<<"a">>), Str(<<"b">>), Str(<<"x">>), Num(0)),
    DogInput(Absent, Str(<<"b">>), Str(<<"x">>), Num(1)),
    DogInput(Str(<<"a">>), Absent, Str(<<"x">>), Num(1)),
    DogInput(Str(<<"a">>), Str(<<"b">>), Absent, Num(1)),
    DogInput(Str(<<"a">>), Str(<<"b">>), Str(<<"x">>), NoNum),
    DogInput(Str(<<"a">>), Str(<<"b">>), Str(<<"x">>), Text) }

Queries ==
  { Query(Absent), Query(Str(<<>>)),
    Query(Str(<<"a", " ", "b">>)), Query(Str(<<" ", "a", " ", "b">>)),
    Query(Str(<<"b">>)) }

\* (Settle as it would be if the fulfilment callback also ran on rejection.)
SettleBoth(ok, onFulfilled, onRejected) ==
  <<onFulfilled>> \o (IF ~ok THEN <<onRejected>> ELSE <<>>)

\* The responses written when a promise settles with one callback for
\* fulfilment and one for rejection (try { await } catch, or then() and
\* catch() on the same promise): exactly one of the two runs.
Settle(ok, onFulfilled, onRejected) ==
  (IF ok THEN <<onFulfilled>> ELSE <<>>) \o (IF ~ok THEN <<onRejected>> ELSE <<>>)

\* The requests still open once request r has been answered.
Without(r) == [x \in Open \ {r} |-> reqs[x]]

CatBody(d) ==
  [NoBody EXCEPT !.shape = "cat", !.name = d.name, !.beds = Json(d.bedsOwned)]

DogBody(d) ==
  [NoBody EXCEPT !.shape = "dog", !.name = d.name, !.breed = d.breed,
                 !.age = Json(d.age)]

\* A request is dispatched to a handler.
Dispatch ==
  /\ nextId < MaxReq
  /\ nextId' = nextId + 1
  /\ created' = created

\* (TrackerAfter as it would be if lastAdded were assigned before the save.)
TrackerAlways(ok, doc) == doc

\* lastAdded after the try block around await save(): the assignment
\* lastAdded = newCat (newDog) runs only if the save did not throw.
TrackerAfter(ok, doc) == IF ok THEN doc ELSE lastAdded

\* The documents of the requests that the responses o answer with 200.
Answered200(o) == {o[i].req.doc : i \in {k \in 1..Len(o) : o[k].status = 200}}

\* POST /setName
setName ==
  \E in \in CatBodies :
    /\ Dispatch
    /\ streak' = <<>>
    /\ UNCHANGED <<lastAdded, db>>
    /\ LET rid == nextId + 1
           req == Request(rid, "setName", in)
           catData == [name |-> TemplateName(in.firstname, in.lastname),
                       bedsOwned |-> in.beds]
           newCat == NewCat(catData)
       IN IF FalsyStr(in.firstname) \/ FalsyStr(in.lastname) \/ FalsyNum(in.beds)
          THEN /\ out' = <<Response(req, 400,
                     ErrorBody("firstname, lastname and beds are all required"))>>
               /\ reqs' = Joined(reqs)
               /\ heap' = heap
          ELSE IF Rejected(newCat)
          THEN /\ out' = Settle(FALSE, Response(req, 200, CatBody(newCat)),
                            Response(req, 500, ErrorBody("failed to create cat")))
               /\ reqs' = Joined(reqs)
               /\ heap' = heap
          ELSE /\ out' = <<>>
               /\ reqs' = Joined(reqs) @@
                    (rid :> [req EXCEPT !.doc = rid, !.op = SaveOp(newCat, rid),
                                        !.ops = 1, !.hadDelta = newCat.dirty])
               /\ heap' = heap @@ (rid :> Saving(newCat))

\* setName after await newCat.save()
setNameResume ==
  \E r \in Open :
    /\ reqs[r].kind = "setName"
    /\ reqs[r].pc = "replied"
    /\ LET req == reqs[r]
           ok == req.res.ok
           saved == [heap EXCEPT ![req.doc] = Settled(@, ok, req.hadDelta)]
           tracker == TrackerAfter(ok, req.doc)
       IN /\ lastAdded' = tracker
          /\ heap' = Collect(saved, tracker, Without(r))
          /\ out' = Settle(ok, Response(req, 200, CatBody(saved[tracker])),
                           Response(req, 500, ErrorBody("failed to create cat")))
    /\ reqs' = Without(r)
    /\ created' = created \cup Answered200(out')
    /\ streak' = <<>>
    /\ UNCHANGED <<db, nextId>>

\* POST /setDog
setDog ==
  \E in \in DogBodies :
    /\ Dispatch
    /\ streak' = <<>>
    /\ UNCHANGED <<lastAdded, db>>
    /\ LET rid == nextId + 1
           req == Request(rid, "setDog", in)
           dogData == [name |-> TemplateName(in.firstname, in.lastname),
                       breed |-> in.breed, age |-> in.age]
           newDog == NewDog(dogData)
       IN IF \/ FalsyStr(in.firstname) \/ FalsyStr(in.lastname)
             \/ FalsyStr(in.breed) \/ FalsyNum(in.age)
          THEN /\ out' = <<Response(req, 400, ErrorBody("Fill in all fields"))>>
               /\ reqs' = Joined(reqs)
               /\ heap' = heap
          ELSE IF Rejected(newDog)
          THEN /\ out' = Settle(FALSE, Response(req, 200, DogBody(newDog)),
                            Response(req, 500, ErrorBody("failed to create dog")))
               /\ reqs' = Joined(reqs)
               /\ heap' = heap
          ELSE /\ out' = <<>>
               /\ reqs' = Joined(reqs) @@
                    (rid :> [req EXCEPT !.doc = rid, !.op = SaveOp(newDog, rid),
                                        !.ops = 1, !.hadDelta = newDog.dirty])
               /\ heap' = heap @@ (rid :> Saving(newDog))

\* setDog after await newDog.save()
setDogResume ==
  \E r \in Open :
    /\ reqs[r].kind = "setDog"
    /\ reqs[r].pc = "replied"
    /\ LET req == reqs[r]
           ok == req.res.ok
           saved == [heap EXCEPT ![req.doc] = Settled(@, ok, req.hadDelta)]
           tracker == TrackerAfter(ok, req.doc)
       IN /\ lastAdded' = tracker
          /\ heap' = Collect(saved, tracker, Without(r))
          /\ out' = Settle(ok, Response(req, 200, DogBody(saved[tracker])),
                           Response(req, 500, ErrorBody("failed to create dog")))
    /\ reqs' = Without(r)
    /\ created' = created \cup Answered200(out')
    /\ streak' = <<>>
    /\ UNCHANGED <<db, nextId>>

\* (CastQuery as it would be if setters did not run on query conditions.)
CastQueryRaw(model, name) == name

\* The cast of a query condition on name: the setters of the path run on it.
CastQuery(model, name) == IF model = "Cat" THEN Trim(name) ELSE name

FindOne(model, name) ==
  [NoOp EXCEPT !.type = "findOne", !.model = model,
               !.name = CastQuery(model, name)]

\* GET /searchName
searchName ==
  \E in \in Queries :
    /\ Dispatch
    /\ streak' = <<>>
    /\ UNCHANGED <<lastAdded, heap, db>>
    /\ LET rid == nextId + 1
           req == Request(rid, "searchName", in)
       IN IF FalsyStr(in.name)
          THEN /\ out' = <<Response(req, 400,
                            ErrorBody("Name is required to perform a search"))>>
               /\ reqs' = Joined(reqs)
          ELSE /\ out' = <<>>
               /\ reqs' = Joined(reqs) @@
                    (rid :> [req EXCEPT !.op = FindOne("Cat", in.name.s),
                                        !.ops = 1])

\* searchName after await Cat.findOne(...).exec()
searchNameResume ==
  \E r \in Open :
    /\ reqs[r].kind = "searchName"
    /\ reqs[r].pc = "replied"
    /\ LET req == reqs[r]
           doc == req.res.doc
           found == [NoBody EXCEPT !.shape = "cat", !.name = doc.name,
                                   !.beds = Num(doc.bedsOwned)]
       IN out' = Settle(req.res.ok,
                   Response(req, 200, IF doc = NoRecord
                                      THEN ErrorBody("No cats found") ELSE found),
                   Response(req, 500, ErrorBody("Something went wrong")))
    /\ reqs' = Without(r)
    /\ streak' = <<>>
    /\ UNCHANGED <<lastAdded, heap, db, nextId, created>>

\* lastAdded.bedsOwned++ and lastAdded.age++: on the model that has the
\* path it is a modification of the document, on the other model it only
\* assigns a plain property.
IncrementBeds(d) ==
  [d EXCEPT !.bedsOwned = Increment(@),
            !.dirty = IF d.model = "Cat" THEN TRUE ELSE @]

IncrementAge(d) ==
  [d EXCEPT !.age = Increment(@),
            !.dirty = IF d.model = "Dog" THEN TRUE ELSE @]

\* The last two entries of the streak once entry e is added.
Extend(l, e) == IF Len(l) < 2 THEN Append(l, e) ELSE <<l[2], e>>

\* /updateLast
updateLast ==
  /\ Dispatch
  /\ UNCHANGED <<lastAdded, db>>
  /\ LET rid == nextId + 1
         req == Request(rid, "updateLast", NoInput)
         doc == IncrementBeds(heap[lastAdded])
     IN IF Rejected(doc)
        THEN /\ heap' = [heap EXCEPT ![lastAdded] = doc]
             /\ out' = Settle(FALSE, Response(req, 200, CatBody(doc)),
                          Response(req, 500, ErrorBody("Something went wrong")))
             /\ reqs' = Joined(reqs)
             /\ streak' = <<>>
        ELSE /\ heap' = [heap EXCEPT ![lastAdded] = Saving(doc)]
             /\ out' = <<>>
             /\ reqs' = Joined(reqs) @@
                  (rid :> [req EXCEPT !.doc = lastAdded,
                                      !.op = SaveOp(doc, lastAdded), !.ops = 1,
                                      !.before = heap[lastAdded].bedsOwned,
                                      !.hadDelta = doc.dirty])
             /\ streak' = IF reqs = <<>> THEN streak ELSE <<>>

\* updateLast once savePromise has settled: the then() and catch() callbacks
updateLastResume ==
  \E r \in Open :
    /\ reqs[r].kind = "updateLast"
    /\ reqs[r].pc = "replied"
    /\ LET req == reqs[r]
           ok == req.res.ok
           saved == [heap EXCEPT ![req.doc] = Settled(@, ok, req.hadDelta)]
           body == CatBody(saved[lastAdded])
       IN /\ heap' = Collect(saved, lastAdded, Without(r))
          /\ out' = Settle(ok, Response(req, 200, body),
                           Response(req, 500, ErrorBody("Something went wrong")))
          /\ streak' = IF ok /\ req.alone
                       THEN Extend(streak, [doc |-> req.doc, before |-> req.before,
                                            beds |-> body.beds])
                       ELSE <<>>
    /\ reqs' = Without(r)
    /\ UNCHANGED <<lastAdded, db, nextId, created>>

\* /updateAge
updateAge ==
  /\ Dispatch
  /\ streak' = <<>>
  /\ UNCHANGED <<lastAdded, db>>
  /\ LET rid == nextId + 1
         req == Request(rid, "updateAge", NoInput)
         doc == IncrementAge(heap[lastAdded])
     IN IF Rejected(doc)
        THEN /\ heap' = [heap EXCEPT ![lastAdded] = doc]
             /\ out' = Settle(FALSE, Response(req, 200, DogBody(doc)),
                          Response(req, 500, ErrorBody("Something went wrong")))
             /\ reqs' = Joined(reqs)
        ELSE /\ heap' = [heap EXCEPT ![lastAdded] = Saving(doc)]
             /\ out' = <<>>
             /\ reqs' = Joined(reqs) @@
                  (rid :> [req EXCEPT !.doc = lastAdded,
                                      !.op = SaveOp(doc, lastAdded), !.ops = 1,
                                      !.before = heap[lastAdded].age,
                                      !.hadDelta = doc.dirty])

\* updateAge once savePromise has settled: the then() and catch() callbacks
updateAgeResume ==
  \E r \in Open :
    /\ reqs[r].kind = "updateAge"
    /\ reqs[r].pc = "replied"
    /\ LET req == reqs[r]
           ok == req.res.ok
           saved == [heap EXCEPT ![req.doc] = Settled(@, ok, req.hadDelta)]
       IN /\ heap' = Collect(saved, lastAdded, Without(r))
          /\ out' = Settle(ok, Response(req, 200, DogBody(saved[lastAdded])),
                           Response(req, 500, ErrorBody("Something went wrong")))
    /\ reqs' = Without(r)
    /\ streak' = <<>>
    /\ UNCHANGED <<lastAdded, db, nextId, created>>

\* GET /page1
hostPage1 ==
  /\ Dispatch
  /\ streak' = <<>>
  /\ out' = <<>>
  /\ reqs' = Joined(reqs) @@
       ((nextId + 1) :> [Request(nextId + 1, "hostPage1", NoInput) EXCEPT
                           !.op = [NoOp EXCEPT !.type = "find", !.model = "Cat"],
                           !.ops = 1])
  /\ UNCHANGED <<lastAdded, heap, db>>

\* hostPage1 after await Cat.find({}).lean().exec()
hostPage1Resume ==
  \E r \in Open :
    /\ reqs[r].kind = "hostPage1"
    /\ reqs[r].pc = "replied"
    /\ LET req == reqs[r]
       IN out' = Settle(req.res.ok,
                   Response(req, 200, [NoBody EXCEPT !.shape = "page",
                                         !.text = "page1", !.docs = req.res.docs]),
                   Response(req, 500, ErrorBody("failed to find cats")))
    /\ reqs' = Without(r)
    /\ streak' = <<>>
    /\ UNCHANGED <<lastAdded, heap, db, nextId, created>>

\* GET /getName
getName ==
  /\ Dispatch
  /\ streak' = <<>>
  /\ out' = <<Response(Request(nextId + 1, "getName", NoInput), 200,
                [NoBody EXCEPT !.shape = "name", !.name = heap[lastAdded].name])>>
  /\ reqs' = Joined(reqs)
  /\ UNCHANGED <<lastAdded, heap, db>>

\* any unmatched route
notFound ==
  /\ Dispatch
  /\ streak' = <<>>
  /\ out' = <<Response(Request(nextId + 1, "notFound", NoInput), 404,
                [NoBody EXCEPT !.shape = "page", !.text = "notFound"])>>
  /\ reqs' = Joined(reqs)
  /\ UNCHANGED <<lastAdded, heap, db>>

Next ==
  \/ setName
  \/ setNameResume
  \/ setDog
  \/ setDogResume
  \/ searchName
  \/ searchNameResume
  \/ updateLast
  \/ updateLastResume
  \/ updateAge
  \/ updateAgeResume
  \/ hostPage1
  \/ hostPage1Resume
  \/ getName
  \/ notFound
  \/ StoreExec

Spec == Init /\ [][Next]_vars

\* ================================================================ claims
\* The responses written by the last step.
OutOf(o) == {o[i] : i \in 1..Len(o)}
Out == OutOf(out)

\* "firstname lastname" as the request states it.
RequestedName(in) == in.firstname.s \o <<" ">> \o in.lastname.s

\* t is s with its leading and trailing spaces removed.
Spaces(n) == [i \in 1..n |-> " "]
IsTrimOf(t, s) ==
  /\ t = <<>> \/ (t[1] # " " /\ t[Len(t)] # " ")
  /\ \E i, j \in 0..Len(s) : s = Spaces(i) \o t \o Spaces(j)

\* A required field of a create-cat request is missing (absent or empty).
MissingText(f) == ~f.p \/ f.s = <<>>
MissingCatField(in) ==
  \/ MissingText(in.firstname)
  \/ MissingText(in.lastname)
  \/ in.beds.t = "absent"

StoredCats(store) == {i \in DOMAIN store : store[i].model = "Cat"}
StoredDogs(store) == {i \in DOMAIN store : store[i].model = "Dog"}

\* ---------------------------------------------------------------- C1
\* C1 as stated: when a create-cat request is answered 200, the Tracker
\* references the Cat the request created, its name equals "firstname
\* lastname" and its bedsOwned the requested beds, and the response body
\* carries the same two values.
C1_TrackerEqualsRequest ==
  \A r \in Out :
    r.req.kind = "setName" /\ r.status = 200 =>
      /\ lastAdded = r.req.doc
      /\ heap[lastAdded].name = RequestedName(r.req.in)
      /\ heap[lastAdded].bedsOwned = Num(r.req.in.beds.n)
      /\ r.body.name = RequestedName(r.req.in)
      /\ r.body.beds = Num(r.req.in.beds.n)

\* C1 as amended: when a create-cat request is answered 200, the Tracker
\* references the Cat the request created, its name is "firstname lastname"
\* with leading and trailing whitespace removed and its bedsOwned the numeric
\* value of the requested beds, and the response body carries those values.
C1_TrackerIsNewCat ==
  \A r \in Out :
    r.req.kind = "setName" /\ r.status = 200 =>
      /\ lastAdded = r.req.doc
      /\ IsTrimOf(heap[lastAdded].name, RequestedName(r.req.in))
      /\ heap[lastAdded].bedsOwned = Num(r.req.in.beds.n)
      /\ r.body.name = heap[lastAdded].name
      /\ r.body.beds = heap[lastAdded].bedsOwned
      /\ r.body.shape = "cat"

\* A create-cat request with all three fields was answered 200.
C1_Witness ==
  \E r \in Out :
    /\ r.req.kind = "setName"
    /\ r.status = 200
    /\ ~MissingCatField(r.req.in)
    /\ lastAdded = r.req.doc

\* ---------------------------------------------------------------- C2
\* C2: no two stored Cats share a name; the create-cat requests answered 200
\* each stored a record and have pairwise different names; and a create-cat
\* request whose trimmed name is stored under another identity when it is
\* answered is answered 500 and stored nothing.
C2_UniqueNames ==
  /\ \A i, j \in StoredCats(db) : i # j => db[i].name # db[j].name
  /\ \A i \in created : i \in DOMAIN db
  /\ \A i, j \in created \cap StoredCats(db) : i # j => db[i].name # db[j].name
  /\ \A r \in Out :
       /\ r.req.kind = "setName"
       /\ r.req.ops = 1
       /\ \E i \in StoredCats(db) :
            i # r.req.doc /\ IsTrimOf(db[i].name, RequestedName(r.req.in))
       => r.status = 500 /\ r.req.doc \notin DOMAIN db

\* A create-cat request that overlapped another one of the same trimmed
\* name was answered 500, the other one's record being stored.
C2_Witness ==
  \E r \in Out :
    /\ r.req.kind = "setName"
    /\ r.status = 500
    /\ ~r.req.alone
    /\ \E i \in created \cap StoredCats(db) :
         i # r.req.doc /\ IsTrimOf(db[i].name, RequestedName(r.req.in))

\* ---------------------------------------------------------------- C3
\* C3: a create-cat request that lacks firstname, lastname or beds is answered
\* 400 in the step that dispatches it, with no storage operation issued: the
\* stored records and the open requests are as before, and no open create-cat
\* request lacks a field.
C3_MissingFieldStep ==
  /\ \A r \in OutOf(out') :
       r.req.kind = "setName" /\ MissingCatField(r.req.in) =>
         /\ r.status = 400
         /\ r.req.ops = 0
         /\ db' = db
         /\ DOMAIN reqs' = DOMAIN reqs
  /\ \A q \in DOMAIN reqs' :
       reqs'[q].kind = "setName" => ~MissingCatField(reqs'[q].in)

\* C3: every step that answers a create-cat request whose firstname, lastname
\* or beds is missing answers it 400 and performs no storage operation.
C3_MissingField == [][C3_MissingFieldStep]_vars

\* A create-cat request without beds was answered 400.
C3_Witness ==
  \E r \in Out :
    /\ r.req.kind = "setName"
    /\ r.req.in.beds.t = "absent"
    /\ r.status = 400
    /\ r.req.ops = 0

\* ---------------------------------------------------------------- C4
\* The body search-cat is expected to write for query name q over the stored
\* records seen, a stored Cat counting as a hit by hit(record name, q).
ExactName(name, q) == name = q

FoundBody(rec) ==
  [shape |-> "cat", name |-> rec.name, beds |-> Num(rec.bedsOwned)]

BodyOf(r) == [shape |-> r.body.shape, name |-> r.body.name, beds |-> r.body.beds]

SearchAnswers(r, hits) ==
  /\ r.status = 200
  /\ hits # {} =>
       \E i \in hits : BodyOf(r) = FoundBody(r.req.res.seen[i])
  /\ hits = {} =>
       r.body.shape = "error" /\ r.body.text = "No cats found"

\* C4 as stated: search-cat never answers 404, and with a non-empty query
\* name and a working store it answers 200: with the name and bedsOwned of
\* the stored Cat of that name if there is one, with {error: 'No cats found'}
\* if no Cat of that name is stored.
C4_SearchByStoredName ==
  \A r \in Out :
    r.req.kind = "searchName" =>
      /\ r.status # 404
      /\ r.req.ops = 1 /\ r.req.res.ok =>
           LET seen == r.req.res.seen
           IN SearchAnswers(r, {i \in StoredCats(seen) :
                                  ExactName(seen[i].name, r.req.in.name.s)})

\* C4 as amended: the same, the stored Cat being the one whose name equals
\* the query name with leading and trailing whitespace removed.
C4_SearchByTrimmedName ==
  \A r \in Out :
    r.req.kind = "searchName" =>
      /\ r.status # 404
      /\ r.req.ops = 1 /\ r.req.res.ok =>
           LET seen == r.req.res.seen
           IN SearchAnswers(r, {i \in StoredCats(seen) :
                                  IsTrimOf(seen[i].name, r.req.in.name.s)})

\* A search found the Cat a create-cat request had just stored.
C4_Witness ==
  \E r \in Out :
    /\ r.req.kind = "searchName"
    /\ r.status = 200
    /\ r.body.shape = "cat"
    /\ \E i \in created \cap StoredCats(db) : r.body.name = db[i].name

\* ---------------------------------------------------------------- C5
\* C5: when two increment-last-cat-beds requests ran one after the other,
\* with no other request open or in between, on a Tracker holding a Cat with
\* bedsOwned = b, and both were answered 200, the first answered beds b+1,
\* the second b+2, and once nothing is open the stored record of the
\* Tracker's identity and the Tracker in memory both have bedsOwned = b+2.
C5_TwoIncrements ==
  Len(streak) = 2 /\ reqs = <<>> /\ heap[lastAdded].model = "Cat" =>
    LET b == streak[1].before.n
        d == streak[2].doc
    IN /\ streak[1].doc = d
       /\ lastAdded = d
       /\ streak[1].before.t = "number"
       /\ streak[1].beds = Num(b + 1)
       /\ streak[2].beds = Num(b + 2)
       /\ d \in DOMAIN db
       /\ db[d].bedsOwned = b + 2
       /\ heap[d].bedsOwned = Num(b + 2)

\* Two increments in sequence on a Cat have both been answered 200.
C5_Witness ==
  /\ Len(streak) = 2
  /\ reqs = <<>>
  /\ heap[lastAdded].model = "Cat"
  /\ streak[2].beds = Num(streak[1].before.n + 2)

\* ---------------------------------------------------------------- C6
IsSave(q) == q.op.type \in {"insertOne", "updateOne", "exists"}

\* C6: overlapping increments lose one.  No two saves of one document are
\* ever in flight: an increment-last-cat-beds request dispatched while the
\* Tracker's Cat is being saved has incremented it in memory and is answered
\* 500 with nothing sent.  When the request whose save was in flight is
\* answered 200, the stored record holds the value that request wrote, its
\* bedsOwned before plus one, and the Cat in memory is ahead of it only if
\* another request overlapped.
C6_OverlapLosesIncrement ==
  /\ \A p, q \in Open :
       p # q /\ IsSave(reqs[p]) /\ IsSave(reqs[q]) => reqs[p].doc # reqs[q].doc
  /\ \A r \in Out :
       r.req.kind = "updateLast" /\ r.req.held = "Cat" =>
         /\ r.req.ops = 0 =>
              /\ r.status = 500
              /\ heap[lastAdded].saving
              /\ heap[lastAdded].bedsOwned.n > 0
         /\ r.status = 200 /\ r.req.doc \in DOMAIN heap =>
              /\ r.req.doc \in DOMAIN db
              /\ db[r.req.doc].bedsOwned = r.req.before.n + 1
              /\ heap[r.req.doc].bedsOwned.n >= r.req.before.n + 1
              /\ heap[r.req.doc].bedsOwned.n > r.req.before.n + 1 => ~r.req.alone

\* Two overlapping increments have both been answered: in memory the Cat
\* has grown by 2, its stored record only by 1.
C6_Witness ==
  /\ reqs = <<>>
  /\ \E r \in Out :
       /\ r.req.kind = "updateLast"
       /\ r.status = 200
       /\ ~r.req.alone
       /\ r.req.doc = lastAdded
       /\ heap[lastAdded].model = "Cat"
       /\ heap[lastAdded].bedsOwned = Num(r.req.before.n + 2)
       /\ db[lastAdded].bedsOwned = r.req.before.n + 1

\* ---------------------------------------------------------------- C7
\* The store executes, in this step, the operation of open request q.
Executes(q) ==
  /\ q \in DOMAIN reqs
  /\ q \in DOMAIN reqs'
  /\ reqs[q].pc = "sent"
  /\ reqs'[q].pc = "replied"

\* The handler of kind, which increments a path of the model own, answers
\* a number only when the Tracker holds a document of that model, and then,
\* the request having run alone, the value before plus one.  When the
\* Tracker holds a document of the other model, the handler is not rejected
\* for it (a save the store accepted is answered 200), and the number it
\* answers is no number.
AnswersOf(kind, own, value(_)) ==
  \A r \in Out :
    r.req.kind = kind =>
      /\ r.status = 200 /\ value(r).t = "number" => heap[lastAdded].model = own
      /\ r.status = 200 /\ heap[lastAdded].model # own => value(r).t # "number"
      /\ /\ r.status = 200
         /\ r.req.held = own
         /\ r.req.alone
         => value(r) = Num(r.req.before.n + 1)
      /\ r.req.held # own /\ r.req.ops = 1 /\ r.req.res.ok => r.status = 200

BodyAge(r) == r.body.age
BodyBeds(r) == r.body.beds

\* A save issued by the handler of kind while the Tracker held a document
\* of another model than own changes no stored record of model own.
LeavesStored(kind, own) ==
  \A q \in DOMAIN reqs :
    Executes(q) /\ reqs[q].kind = kind /\ reqs[q].held # own =>
      /\ {i \in DOMAIN db' : db'[i].model = own}
           = {i \in DOMAIN db : db[i].model = own}
      /\ \A i \in DOMAIN db : db[i].model = own => db'[i] = db[i]

C7_Step ==
  /\ LeavesStored("updateAge", "Dog")
  /\ LeavesStored("updateLast", "Cat")
  /\ AnswersOf("updateAge", "Dog", BodyAge)'
  /\ AnswersOf("updateLast", "Cat", BodyBeds)'

\* C7: increment-last-dog-age answers an integer age, one greater than the
\* age before, only when the Tracker holds a Dog; when the Tracker holds a
\* Cat the request is not rejected for it, the age it answers is not a
\* number, and no stored Dog changes.  Symmetrically for
\* increment-last-cat-beds and a Tracker that holds a Dog.
C7_IncrementOtherModel == [][C7_Step]_vars

\* increment-last-dog-age was answered 200 while the Tracker held a Cat,
\* with an age that JSON writes as null.
C7_Witness ==
  \E r \in Out :
    /\ r.req.kind = "updateAge"
    /\ r.req.held = "Cat"
    /\ heap[lastAdded].model = "Cat"
    /\ r.status = 200
    /\ r.body.age.t = "null"

\* ---------------------------------------------------------------- C8
\* The requests a step answers: those it closes, and the one it dispatches
\* without opening it.
Closed == (DOMAIN reqs) \ (DOMAIN reqs')
AnsweredAtOnce ==
  IF nextId' # nextId /\ nextId' \notin DOMAIN reqs' THEN {nextId'} ELSE {}

C8_Step ==
  /\ Cardinality(Closed) <= 1
  /\ Len(out') = Cardinality(Closed \cup AnsweredAtOnce)
  /\ \A r \in OutOf(out') : r.req.rid \in Closed \cup AnsweredAtOnce
  /\ \A q \in Closed :
       /\ reqs[q].pc = "replied"
       /\ \A r \in OutOf(out') :
            /\ r.req = reqs[q]
            /\ r.req.ops = 1
            /\ r.status = IF reqs[q].res.ok THEN 200 ELSE 500
  /\ \A r \in OutOf(out') : r.req.rid \in AnsweredAtOnce => r.req.ops = 0
  /\ \A q \in DOMAIN reqs' : reqs'[q].ops = 1
  /\ \A q \in (DOMAIN reqs) \cap (DOMAIN reqs') :
       /\ reqs'[q].op = reqs[q].op
       /\ reqs[q].pc = "replied" => reqs'[q].pc = "replied" /\ reqs'[q].res = reqs[q].res

\* C8: a step that finishes a request writes exactly one response for it and
\* none for any other; a request issues at most one storage operation, which
\* is never sent again once the store has answered; a failed operation is
\* answered 500 and a successful one 200, never both.
C8_OneResponse == [][C8_Step]_vars

\* A request whose one storage operation failed was answered with a single
\* 500.
C8_Witness ==
  /\ Len(out) = 1
  /\ out[1].req.ops = 1
  /\ ~out[1].req.res.ok
  /\ out[1].status = 500
  /\ out[1].req.kind = "updateLast"

\* ---------------------------------------------------------------- C9
\* C9: create-cat answers 400 only when firstname, lastname or beds is
\* missing.
C9_BadRequestOnlyWhenMissing ==
  \A r \in Out :
    r.req.kind = "setName" /\ r.status = 400 => MissingCatField(r.req.in)

\* ---------------------------------------------------------------- C10
Fields(d) == <<d.model, d.name, d.bedsOwned, d.breed, d.age>>

IsCreate(q) == q.kind \in {"setName", "setDog"}

C10_Step ==
  /\ \A r \in OutOf(out') :
       IsCreate(r.req) /\ r.status \in {400, 500} =>
         /\ lastAdded' = lastAdded
         /\ Fields(heap'[lastAdded']) = Fields(heap[lastAdded])
  /\ \A q \in (DOMAIN reqs') \ (DOMAIN reqs) :
       IsCreate(reqs'[q]) =>
         /\ lastAdded' = lastAdded
         /\ Fields(heap'[lastAdded']) = Fields(heap[lastAdded])
  /\ \/ lastAdded' = PlaceholderId
     \/ lastAdded' \in created' /\ lastAdded' \in DOMAIN db'

\* C10: the step that dispatches a create-cat or create-dog request, and the
\* step that answers one with 400 or 500, leave the Tracker referencing the
\* same document with the same field values; and the Tracker always
\* references the placeholder or a stored record whose create request was
\* answered 200.
C10_FailedCreateKeepsTracker == [][C10_Step]_vars

\* A create-cat request whose save failed was answered 500 while the
\* Tracker kept referencing the record of an earlier create request.
C10_Witness ==
  \E r \in Out :
    /\ r.req.kind = "setName"
    /\ r.status = 500
    /\ r.req.ops = 1
    /\ lastAdded # r.req.doc
    /\ lastAdded \in created

\* --------------------------------------------------------------- C11
\* The responses a step writes that answer an updateLast request with 200
\* carry the name and the beds of the document that request incremented and
\* saved (the document as it is in memory when the callback runs).
C11_Step ==
  \A r \in OutOf(out') :
    r.req.kind = "updateLast" /\ r.status = 200 =>
      /\ r.req.doc \in DOMAIN heap
      /\ r.body.name = heap[r.req.doc].name
      /\ r.body.beds = Json(heap[r.req.doc].bedsOwned)

\* C11: the name and beds of a successful increment-last-cat-beds response
\* are those of the record that request incremented and saved, also when a
\* create request reassigned the Tracker while the save was in flight.
C11_ResponseOfIncrementedRecord == [][C11_Step]_vars

\* --------------------------------------------------------------- C12
IsIncrement(q) == q.kind \in {"updateLast", "updateAge"}

\* A step taken for an increment request.  The handler's own steps (its
\* dispatch and its answer) leave the stored records alone.  When the store
\* executes the save of an increment request: the set of stored records
\* grows only by the placeholder, inserted as a Cat named 'unknown' by a
\* save the store accepted, the placeholder not being stored before; a save
\* of a document that is already stored is never an insert and adds no
\* record; and an accepted save of a document that is not stored inserts it.
C12_Step ==
  /\ \A r \in OutOf(out') : IsIncrement(r.req) => db' = db
  /\ \A q \in (DOMAIN reqs') \ (DOMAIN reqs) :
       IsIncrement(reqs'[q]) => db' = db
  /\ \A q \in DOMAIN reqs :
       Executes(q) /\ IsIncrement(reqs[q]) =>
         /\ DOMAIN db' # DOMAIN db =>
              /\ reqs[q].doc = PlaceholderId
              /\ PlaceholderId \notin DOMAIN db
              /\ DOMAIN db' = (DOMAIN db) \cup {PlaceholderId}
              /\ db'[PlaceholderId].model = "Cat"
              /\ db'[PlaceholderId].name = defaultData.name
              /\ reqs'[q].res.ok
              /\ \A i \in DOMAIN db : db'[i] = db[i]
         /\ reqs[q].doc \in DOMAIN db =>
              /\ reqs[q].op.type # "insertOne"
              /\ DOMAIN db' = DOMAIN db
         /\ reqs'[q].res.ok /\ reqs[q].doc \notin DOMAIN db =>
              /\ reqs[q].op.type = "insertOne"
              /\ reqs[q].doc \in DOMAIN db'

\* C12: increment-last-cat-beds and increment-last-dog-age never add a
\* stored record, except that the first successful increment on the
\* never-saved placeholder inserts it as a Cat named 'unknown'; every later
\* increment on that record updates the stored record and inserts nothing.
C12_IncrementsAddNoRecord == [][C12_Step]_vars

\* The placeholder was inserted by an earlier increment, and the store has
\* now accepted the update sent by a later increment on it: one stored
\* record, named 'unknown', with both increments.
C12_Witness ==
  \E q \in DOMAIN reqs :
    /\ IsIncrement(reqs[q])
    /\ reqs[q].pc = "replied"
    /\ reqs[q].res.ok
    /\ reqs[q].op.type = "updateOne"
    /\ reqs[q].doc = PlaceholderId
    /\ DOMAIN db = {PlaceholderId}
    /\ db[PlaceholderId].name = defaultData.name
    /\ db[PlaceholderId].bedsOwned = defaultData.bedsOwned.n + 2

====
